---------------------------- MODULE Spec2Model ----------------------------
(***************************************************************************)
(* Model of app.py, the "UK Tourist Analysis" dashboard script.            *)
(*                                                                         *)
(* The script is linear: load_data() reads two CSV files, normalises the   *)
(* column names, cleans rows, converts metric columns to numbers and       *)
(* appends the derived 'Age (Overall)' rows; the module level then stops   *)
(* on an empty summary table, and otherwise calls create_bar_chart eight   *)
(* times and create_subset_chart up to three times.  An exception that no  *)
(* handler catches ends the script run.                                    *)
(*                                                                         *)
(* Text is modelled by TLA+ strings, read character by character, so that  *)
(* str.lower(), the "in" substring test and the re.sub calls are computed  *)
(* the way the code computes them.  TLA+ strings are ASCII: the two        *)
(* non-ASCII characters of the patterns are written with the stand-ins     *)
(* FullwidthColon and YenSign below.                                       *)
(***************************************************************************)
EXTENDS Integers, Sequences, FiniteSets, Bags, TLC

VARIABLES
    files,           \* the two CSV files on disk (input, never written)
    pc,              \* position of the script run
    ip,              \* index of the next chart step of the script
    df_summary,      \* module-level df_summary
    df_expenditure,  \* module-level df_expenditure
    ui,              \* the Streamlit elements emitted so far, in order
    exc,             \* the uncaught exception that ended the run, if any
    col,             \* a column header handed to clean_col_name
    cleaned          \* the successive results of clean_col_name on col

vars == <<files, pc, ip, df_summary, df_expenditure, ui, exc, col, cleaned>>

---------------------------------------------------------------------------
(* Bounds of the model                                                     *)

\* longest generated column header (clean_col_name's inputs)
MaxLen == 4
\* most rows of a summary CSV file
MaxRows == 2

---------------------------------------------------------------------------
(* Text                                                                    *)

\* U+FF1A FULLWIDTH COLON, the second member of the class [:：]
FullwidthColon == ";"
\* U+00A5 YEN SIGN, the first member of the class [¥%()]
YenSign == "$"

UpperLetters == "ABCDEFGHIJKLMNOPQRSTUVWXYZ"
LowerLetters == "abcdefghijklmnopqrstuvwxyz"

CharAt(s, i) == SubSeq(s, i, i)
StrTail(s) == SubSeq(s, 2, Len(s))

\* Python's \s and str.strip() whitespace, as far as the inputs use it
IsSpace(c) == c \in {" ", "\t"}

\* the lower-case letter of each upper-case letter
LowerOf == [c \in {CharAt(UpperLetters, i) : i \in 1..26} |->
               CharAt(LowerLetters, CHOOSE i \in 1..26 : CharAt(UpperLetters, i) = c)]

LowerChar(c) == IF c \in DOMAIN LowerOf THEN LowerOf[c] ELSE c

RECURSIVE Lower(_)
\* str.lower()
Lower(s) == IF s = "" THEN "" ELSE LowerChar(CharAt(s, 1)) \o Lower(StrTail(s))

\* Python's "sub in s" on strings
Contains(s, sub) ==
    \E i \in 0..(Len(s) - Len(sub)) : SubSeq(s, i + 1, i + Len(sub)) = sub

\* number of whitespace characters s starts with
RECURSIVE LeadingSpaces(_)
LeadingSpaces(s) ==
    IF s # "" /\ IsSpace(CharAt(s, 1)) THEN 1 + LeadingSpaces(StrTail(s)) ELSE 0

RECURSIVE TrailingSpaces(_)
TrailingSpaces(s) ==
    IF s # "" /\ IsSpace(CharAt(s, Len(s)))
    THEN 1 + TrailingSpaces(SubSeq(s, 1, Len(s) - 1))
    ELSE 0

\* str.strip()
Strip(s) ==
    LET l == LeadingSpaces(s)
    IN  IF l = Len(s) THEN "" ELSE SubSeq(s, l + 1, Len(s) - TrailingSpaces(s))

RECURSIVE SubColon(_)
\* re.sub(r'\s*[:：]\s*', '_', name): leftmost match first, each \s* greedy
SubColon(s) ==
    IF s = "" THEN ""
    ELSE LET k == LeadingSpaces(s)
         IN  IF k < Len(s) /\ CharAt(s, k + 1) \in {":", FullwidthColon}
             THEN LET rest == SubSeq(s, k + 2, Len(s))
                  IN  "_" \o SubColon(SubSeq(rest, LeadingSpaces(rest) + 1, Len(rest)))
             ELSE CharAt(s, 1) \o SubColon(StrTail(s))

RECURSIVE SubSpaces(_)
\* re.sub(r'\s+', '_', name)
SubSpaces(s) ==
    IF s = "" THEN ""
    ELSE LET k == LeadingSpaces(s)
         IN  IF k > 0
             THEN "_" \o SubSpaces(SubSeq(s, k + 1, Len(s)))
             ELSE CharAt(s, 1) \o SubSpaces(StrTail(s))

RECURSIVE SubSymbols(_)
\* re.sub(r'[¥%()]', '', name)
SubSymbols(s) ==
    IF s = "" THEN ""
    ELSE IF CharAt(s, 1) \in {YenSign, "%", "(", ")"}
         THEN SubSymbols(StrTail(s))
         ELSE CharAt(s, 1) \o SubSymbols(StrTail(s))

\* clean_col_name without the \s+ substitution (a dropped line 32)
clean_col_name_no_spaces(name) == SubSymbols(SubColon(Strip(name)))

\* clean_col_name, nested in load_data
clean_col_name(name) == SubSymbols(SubSpaces(SubColon(Strip(name))))

---------------------------------------------------------------------------
(* Column headers handed to the normaliser                                 *)

NameAlphabet == {" ", ":", "%", "(", "a", "_"}

RECURSIVE NamesOfLen(_)
NamesOfLen(n) ==
    IF n = 0 THEN {""}
    ELSE {c \o s : c \in NameAlphabet, s \in NamesOfLen(n - 1)}

\* the header forms section 6 of the specification names, and variants
DocumentedHeaders ==
    {"all:Share (%)", "uk:Share (%)", "Category", "Item",
     " uk : Purchase Rate (%) ", "all;Unit Price ($)"}

Names == UNION {NamesOfLen(n) : n \in 0..MaxLen} \cup DocumentedHeaders

---------------------------------------------------------------------------
(* Numbers                                                                 *)
(*                                                                         *)
(* A float64 cell x is held as the integer 2x, which is exact for the      *)
(* whole numbers of the input files and for the mean of two of them.       *)

Num(n) == 2 * n

Digits == "0123456789"

\* the value of each decimal digit
DigitOf == [c \in {CharAt(Digits, i) : i \in 1..10} |->
               (CHOOSE i \in 1..10 : CharAt(Digits, i) = c) - 1]

IsDigit(c) == c \in DOMAIN DigitOf

DigitValue(c) == DigitOf[c]

RECURSIVE IsDigits(_)
IsDigits(s) == s = "" \/ (IsDigit(CharAt(s, 1)) /\ IsDigits(StrTail(s)))

RECURSIVE DigitsValue(_)
DigitsValue(s) ==
    IF s = "" THEN 0
    ELSE 10 * DigitsValue(SubSeq(s, 1, Len(s) - 1)) + DigitValue(CharAt(s, Len(s)))

RECURSIVE Replace(_, _, _)
\* Series.str.replace(old, new) with a literal, non-empty old
Replace(s, old, new) ==
    IF Len(s) < Len(old) THEN s
    ELSE IF SubSeq(s, 1, Len(old)) = old
         THEN new \o Replace(SubSeq(s, Len(old) + 1, Len(s)), old, new)
         ELSE CharAt(s, 1) \o Replace(StrTail(s), old, new)

\* pd.to_numeric(cell without ',', '%' and 'nan', errors='coerce').fillna(0)
\* on cells that hold a whole number or a text that is no number
ToNumeric(cell) ==
    LET t == Replace(Replace(Replace(cell, ",", ""), "%", ""), "nan", "")
    IN  IF t # "" /\ IsDigits(t) THEN Num(DigitsValue(t)) ELSE 0

---------------------------------------------------------------------------
(* Data frames: the column labels in order, and the rows in order, each    *)
(* row a function from its column labels to its cells.  A label a row      *)
(* does not have is a NaN cell.                                            *)

Range(seq) == {seq[i] : i \in 1..Len(seq)}

DataFrame(columns, rows) == [columns |-> columns, rows |-> rows]

\* pd.DataFrame()
EmptyFrame == DataFrame(<<>>, <<>>)

\* DataFrame.empty: some axis has length 0
IsEmpty(df) == Len(df.columns) = 0 \/ Len(df.rows) = 0

\* df[mask]: the rows whose entry in the boolean mask is True, in order
Filter(df, mask) ==
    LET Keep[k \in 0..Len(df.rows)] ==
            IF k = 0 THEN <<>>
            ELSE IF mask[k] THEN Append(Keep[k - 1], df.rows[k]) ELSE Keep[k - 1]
    IN  DataFrame(df.columns, Keep[Len(df.rows)])

\* df[c] == value, as a mask
EqualsMask(df, c, value) == [k \in 1..Len(df.rows) |-> df.rows[k][c] = value]

\* df.columns = [clean_col_name(c) for c in df.columns], for headers that
\* stay distinct
NormalizeColumns(df) ==
    LET new == [i \in 1..Len(df.columns) |-> clean_col_name(df.columns[i])]
        Old(n) == df.columns[CHOOSE i \in 1..Len(new) : new[i] = n]
    IN  DataFrame(new,
                  [k \in 1..Len(df.rows) |->
                      [n \in Range(new) |-> df.rows[k][Old(n)]]])

\* pd.concat([a, b]): the rows of a, then those of b; the labels of a, then
\* the labels only b has
Concat(a, b) ==
    DataFrame(a.columns \o SelectSeq(b.columns, LAMBDA c : c \notin Range(a.columns)),
              a.rows \o b.rows)

\* df[c].unique(): the distinct values of column c, in order of appearance
RECURSIVE Unique(_)
Unique(seq) ==
    IF seq = <<>> THEN <<>>
    ELSE LET init == Unique(SubSeq(seq, 1, Len(seq) - 1))
             last == seq[Len(seq)]
         IN  IF last \in Range(init) THEN init ELSE Append(init, last)

ColumnValues(df, c) == [k \in 1..Len(df.rows) |-> df.rows[k][c]]

\* melt that keeps the first value column only
MeltFirstValueOnly(data, id, value_vars, var_name, value_name) ==
    [j \in 1..Len(data.rows) |->
        (id :> data.rows[j][id]) @@ (var_name :> value_vars[1])
        @@ (value_name :> data.rows[j][value_vars[1]])]

\* DataFrame.melt(id_vars=[id], value_vars=value_vars, var_name=, value_name=):
\* for each value column in turn, one row per row of data
Melt(data, id, value_vars, var_name, value_name) ==
    LET n == Len(data.rows)
        Cell(j) ==
            LET v == value_vars[((j - 1) \div n) + 1]
                r == data.rows[((j - 1) % n) + 1]
            IN  (id :> r[id]) @@ (var_name :> v) @@ (value_name :> r[v])
    IN  [j \in 1..(n * Len(value_vars)) |-> Cell(j)]

\* melted['Group'] = melted['Group'].map({all_col: 'All', uk_col: 'UK'})
MapGroup(melted, all_col, uk_col) ==
    [j \in 1..Len(melted) |->
        [melted[j] EXCEPT !["Group"] =
            IF @ = uk_col THEN "UK" ELSE IF @ = all_col THEN "All" ELSE "nan"]]

---------------------------------------------------------------------------
(* Streamlit elements: the kind, the parts of the text, the chart data     *)

Element(kind, text, data) == [kind |-> kind, text |-> text, data |-> data]

StError(text) == Element("error", text, <<>>)
StWarning(text) == Element("warning", text, <<>>)
\* st.altair_chart(alt.Chart(melted)...properties(title=title))
AltairChart(title, melted) == Element("altair_chart", <<title>>, melted)

\* an exception of the given type leaving the given function; "" for none
Raised(type, function) == [type |-> type, in |-> IF type = "" THEN "" ELSE function]

NoException == Raised("", "")

\* what a call leaves behind: the exception it raised ("" if it returned),
\* the elements it emitted, and the table it was given, as it is afterwards
Outcome(raised, emitted, df) == [raised |-> raised, emitted |-> emitted, df |-> df]

---------------------------------------------------------------------------
(* load_data                                                               *)

\* 'tok' in c.lower()
HasToken(c, tok) == Contains(Lower(c), tok)

MetricTokens == {"share", "rate", "price", "spending", "nights", "count"}

\* the test of line 52
IsMetricColumn(c) == \E tok \in MetricTokens : HasToken(c, tok)

\* convert_to_numeric, nested in load_data
convert_to_numeric(df) ==
    DataFrame(df.columns,
              [k \in 1..Len(df.rows) |->
                  [n \in DOMAIN df.rows[k] |->
                      IF IsMetricColumn(n)
                      THEN ToNumeric(df.rows[k][n])
                      ELSE df.rows[k][n]]])

\* .str.replace(r'^- ', '', regex=True).str.strip() of line 47
CleanItem(cell) ==
    Strip(IF Len(cell) >= 2 /\ SubSeq(cell, 1, 2) = "- "
          THEN SubSeq(cell, 3, Len(cell))
          ELSE cell)

\* line 47: df_exp[item_col_exp] = the cleaned labels
CleanItemColumn(df, item_col_exp) ==
    DataFrame(df.columns,
              [k \in 1..Len(df.rows) |->
                  [n \in DOMAIN df.rows[k] |->
                      IF n = item_col_exp THEN CleanItem(df.rows[k][n])
                      ELSE df.rows[k][n]]])

\* next((c for c in columns if 'item' in c.lower()), None); <<>> is None
ItemColumn(df) == SelectSeq(df.columns, LAMBDA c : HasToken(c, "item"))

\* [c for c in columns if group in c.lower() and metric in c.lower()]
MetricColumns(df, group, metric) ==
    SelectSeq(df.columns, LAMBDA c : HasToken(c, group) /\ HasToken(c, metric))

\* (a + b) without the division by two
MeanNotHalved(a, b) == a + b

\* (male + female) / 2 of lines 78 and 79
Mean(a, b) == (a + b) \div 2

\* the row of the subset (indexed by Item) with the given Item
RowOf(subset, item) ==
    subset.rows[CHOOSE k \in 1..Len(subset.rows) : subset.rows[k]["Item"] = item]

\* lines 74 to 79: the overall_age frame
OverallAge(male_data, female_data, uk_share_col, all_share_col) ==
    LET age_items == SelectSeq(ColumnValues(male_data, "Item"),
                               LAMBDA i : i \in Range(ColumnValues(female_data, "Item")))
        Row(i) == (all_share_col :>
                      Mean(RowOf(male_data, i)[all_share_col],
                           RowOf(female_data, i)[all_share_col]))
                  @@ (uk_share_col :>
                      Mean(RowOf(male_data, i)[uk_share_col],
                           RowOf(female_data, i)[uk_share_col]))
                  @@ ("Category" :> "Age (Overall)") @@ ("Item" :> i)
    IN  DataFrame(<<"Category", "Item", uk_share_col, all_share_col>>,
                  [k \in 1..Len(age_items) |-> Row(age_items[k])])

\* step 5 of load_data (lines 65 to 81), on the cleaned summary table
AddOverallAge(df_sum) ==
    LET male_data == Filter(df_sum, EqualsMask(df_sum, "Category", "male"))
        female_data == Filter(df_sum, EqualsMask(df_sum, "Category", "female"))
        uk_cols == MetricColumns(df_sum, "uk", "share")
        all_cols == MetricColumns(df_sum, "all", "share")
    IN  IF IsEmpty(male_data) \/ IsEmpty(female_data)
        THEN Outcome("", <<>>, df_sum)
        ELSE IF uk_cols = <<>> \/ all_cols = <<>>
             THEN Outcome("IndexError", <<>>, df_sum)
             ELSE Outcome("", <<>>,
                          Concat(df_sum,
                                 OverallAge(male_data, female_data,
                                            uk_cols[1], all_cols[1])))

\* steps 1 to 4 on the summary table (lines 36, 40 to 41 and 62)
CleanSummary(read) ==
    LET renamed == NormalizeColumns(read)
        kept == IF "Item" \in Range(renamed.columns)
                THEN Filter(renamed,
                            [k \in 1..Len(renamed.rows) |->
                                renamed.rows[k]["Item"] # "total"])
                ELSE renamed
    IN  convert_to_numeric(kept)

\* steps 1 to 4 on the expenditure table (lines 37, 45 to 47 and 63)
CleanExpenditure(read) ==
    LET renamed == NormalizeColumns(read)
        item_col_exp == ItemColumn(renamed)
        stripped == IF item_col_exp # <<>>
                    THEN CleanItemColumn(renamed, item_col_exp[1])
                    ELSE renamed
    IN  convert_to_numeric(stripped)

\* pd.read_csv on a readable file
read_csv(file) == DataFrame(file.header, file.rows)

\* load_data: the exception it raised, what it emitted, and the pair it returns
load_data(fs) ==
    IF ~fs.summary.readable \/ ~fs.expenditure.readable
    THEN [raised |-> "",
          emitted |-> <<StError(<<"Critical Error: Failed to load CSV files.">>)>>,
          df_sum |-> EmptyFrame, df_exp |-> EmptyFrame]
    ELSE LET derived == AddOverallAge(CleanSummary(read_csv(fs.summary)))
         IN  [raised |-> derived.raised,
              emitted |-> <<>>,
              df_sum |-> derived.df,
              df_exp |-> CleanExpenditure(read_csv(fs.expenditure))]

---------------------------------------------------------------------------
(* create_bar_chart                                                        *)
(*                                                                         *)
(* The axis, colour, sort, tooltip and height bindings of the chart do     *)
(* not depend on the table; the model keeps the chart's title and data.    *)

\* the resolution without the exact test of lines 104 and 105
ResolveCategoryFuzzyOnly(available_cats, category_query) ==
    LET fuzzy == SelectSeq(available_cats,
                           LAMBDA c : Contains(Lower(c), Lower(category_query)))
    IN  IF fuzzy = <<>> THEN <<>> ELSE <<fuzzy[1]>>

\* lines 101 to 110: target_cat, <<>> for None and <<c>> for the value c
ResolveCategory(available_cats, category_query) ==
    IF category_query \in Range(available_cats)
    THEN <<category_query>>
    ELSE LET fuzzy == SelectSeq(available_cats,
                                LAMBDA c : Contains(Lower(c), Lower(category_query)))
         IN  IF fuzzy = <<>> THEN <<>> ELSE <<fuzzy[1]>>

\* the error without the list of available categories
NotFoundErrorNoList(category_query, available_cats) ==
    StError(<<"Data for category", category_query, "not found.">>)

\* the st.error of line 113
NotFoundError(category_query, available_cats) ==
    StError(<<"Data for category", category_query,
              "not found. Available categories:">> \o available_cats)

\* lines 116 to 133 with the filter applied to the caller's table in place
RenderBarChartInPlace(df, target_cat, title) ==
    LET data == Filter(df, EqualsMask(df, "Category", target_cat))
        uk_cols == MetricColumns(data, "uk", "share")
        all_cols == MetricColumns(data, "all", "share")
    IN  IF uk_cols = <<>> \/ all_cols = <<>>
        THEN Outcome("IndexError", <<>>, data)
        ELSE Outcome("",
                     <<AltairChart(title,
                                   MapGroup(Melt(data, "Item",
                                                 <<all_cols[1], uk_cols[1]>>,
                                                 "Group", "Share"),
                                            all_cols[1], uk_cols[1]))>>,
                     data)

\* lines 116 to 133: the filtered copy, the column lookup, the melt, the chart
RenderBarChart(df, target_cat, title) ==
    LET data == Filter(df, EqualsMask(df, "Category", target_cat))
        uk_cols == MetricColumns(data, "uk", "share")
        all_cols == MetricColumns(data, "all", "share")
    IN  IF uk_cols = <<>> \/ all_cols = <<>>
        THEN Outcome("IndexError", <<>>, df)
        ELSE IF "Item" \notin Range(data.columns)
             THEN Outcome("KeyError", <<>>, df)
             ELSE Outcome("",
                          <<AltairChart(title,
                                        MapGroup(Melt(data, "Item",
                                                      <<all_cols[1], uk_cols[1]>>,
                                                      "Group", "Share"),
                                                 all_cols[1], uk_cols[1]))>>,
                          df)

\* create_bar_chart(df, category_query, title, ...)
create_bar_chart(df, category_query, title) ==
    IF "Category" \notin Range(df.columns)
    THEN Outcome("KeyError", <<>>, df)
    ELSE LET available_cats == Unique(ColumnValues(df, "Category"))
             target_cat == ResolveCategory(available_cats, category_query)
         IN  IF target_cat = <<>>
             THEN Outcome("", <<NotFoundError(category_query, available_cats)>>, df)
             ELSE RenderBarChart(df, target_cat[1], title)

---------------------------------------------------------------------------
(* create_subset_chart                                                     *)

\* str.contains('|'.join(items_list), case=False, regex=True) on one label,
\* for keywords without regular-expression metacharacters
MatchesAny(label, items_list) ==
    \/ items_list = <<>>
    \/ \E k \in 1..Len(items_list) : Contains(Lower(label), Lower(items_list[k]))

\* create_subset_chart(df, items_list, title, metric_type)
create_subset_chart(df, items_list, title, metric_type) ==
    LET item_col == ItemColumn(df)
    IN  IF item_col = <<>> THEN Outcome("", <<>>, df)
        ELSE
        LET data == Filter(df,
                           [k \in 1..Len(df.rows) |->
                               MatchesAny(df.rows[k][item_col[1]], items_list)])
            metric == IF metric_type = "Rate" THEN "rate" ELSE "price"
            uk_cols == MetricColumns(df, "uk", metric)
            all_cols == MetricColumns(df, "all", metric)
        IN  IF IsEmpty(data)
            THEN Outcome("",
                         <<StWarning(<<"No data found for chart:", title, "Keywords:">>
                                     \o items_list)>>,
                         df)
            ELSE IF uk_cols = <<>> \/ all_cols = <<>>
                 THEN Outcome("IndexError", <<>>, df)
                 ELSE Outcome("",
                              <<AltairChart(title,
                                            MapGroup(Melt(data, item_col[1],
                                                          <<all_cols[1], uk_cols[1]>>,
                                                          "Group", "Value"),
                                                     all_cols[1], uk_cols[1]))>>,
                              df)

---------------------------------------------------------------------------
(* The input files                                                         *)

\* a file pd.read_csv cannot read (missing, undecodable, without a header)
Unreadable == [readable |-> FALSE, header |-> <<>>, rows |-> <<>>]

CsvFile(header, rows) ==
    [readable |-> TRUE, header |-> header,
     rows |-> [k \in 1..Len(rows) |-> [h \in Range(header) |-> rows[k][h]]]]

\* summary_data.csv: Category and Item, and the metric columns it may lack
SummaryHeaders ==
    {<<"Category", "Item", "all:Share (%)", "uk:Share (%)">>,
     <<"Category", "Item", "all:Share (%)">>,
     <<"Category", "Item", "uk:Share (%)">>,
     <<"Category", "Item">>}

SummaryRow(category, item, all, uk) ==
    ("Category" :> category) @@ ("Item" :> item)
    @@ ("all:Share (%)" :> all) @@ ("uk:Share (%)" :> uk)

\* the rows a summary file is made of; Items are unique within a Category
SummaryPool ==
    {SummaryRow("male", "20s", "20", "10"),
     SummaryRow("female", "20s", "40", "30"),
     SummaryRow("male", "30s", "25", "n/a"),
     SummaryRow("female", "30s", "60", "5%"),
     SummaryRow("male", "total", "100", "100"),
     SummaryRow("Port of Entry", "Haneda", "40", "60"),
     SummaryRow("Port of Entry", "Narita", "60", "40"),
     SummaryRow("Main Purpose", "Tourism", "1,070", "50"),
     SummaryRow("purpose", "Business", "30", "50")}

RECURSIVE RowSeqs(_, _)
\* the sequences of n distinct rows of pool
RowSeqs(pool, n) ==
    IF n = 0 THEN {<<>>}
    ELSE UNION {{Append(seq, r) : r \in pool \ Range(seq)} :
                   seq \in RowSeqs(pool, n - 1)}

SummaryFiles ==
    {Unreadable} \cup
    {CsvFile(h, rows) :
        h \in SummaryHeaders,
        rows \in UNION {RowSeqs(SummaryPool, n) : n \in 0..MaxRows}}

ExpenditureRow(item, all, uk) ==
    ("Expenditure Item" :> item)
    @@ ("all:Purchase Rate (%)" :> all) @@ ("uk:Purchase Rate (%)" :> uk)

\* an expenditure file with both rate columns and rows for both keyword lists
ReferenceExpenditure ==
    CsvFile(<<"Expenditure Item", "all:Purchase Rate (%)", "uk:Purchase Rate (%)">>,
            <<ExpenditureRow("- Cosmetics", "12", "8"),
              ExpenditureRow("Museum", "30%", "45%")>>)

\* expenditure_data.csv
ExpenditureFiles ==
    {Unreadable,
     ReferenceExpenditure,
     CsvFile(<<"Expenditure Item", "all:Purchase Rate (%)", "uk:Purchase Rate (%)">>,
             <<ExpenditureRow("- Domestic Airfare", "20", "25")>>),
     CsvFile(<<"Expenditure Item", "all:Purchase Rate (%)">>,
             <<ExpenditureRow("- Cosmetics", "12", "8")>>),
     CsvFile(<<"Expenditure Item", "all:Purchase Rate (%)", "uk:Purchase Rate (%)">>,
             <<>>),
     CsvFile(<<"all:Purchase Rate (%)", "uk:Purchase Rate (%)">>,
             <<ExpenditureRow("- Cosmetics", "12", "8")>>)}

---------------------------------------------------------------------------
(* The module-level script                                                 *)

\* the create_bar_chart calls of tabs 1 and 2, in order
BarCalls ==
    <<[query |-> "Age (Overall)", title |-> "Age Groups (Male & Female Combined)"],
      [query |-> "Household Annual Income", title |-> "Annual Income (Flow)"],
      [query |-> "Household Net Financial Assets",
       title |-> "Net Financial Assets (Stock)"],
      [query |-> "purpose", title |-> "Purpose Breakdown"],
      [query |-> "Port of Entry", title |-> "Entry Airport"],
      [query |-> "accommodation type", title |-> "Accommodation Preference"],
      [query |-> "companion", title |-> "Travel Companion"],
      [query |-> "Length of Stay", title |-> "Stay Duration"]>>

\* the keyword create_subset_chart calls of tab 3, in order
SubsetCalls ==
    <<[items |-> <<"Confectionery", "Cosmetics", "Clothing", "Shoes", "Alcohol",
                   "Crafts", "Medicine">>,
       title |-> "Shopping Items (Rate %)", metric |-> "Rate"],
      [items |-> <<"Museum", "Springs", "Theme", "Ski", "Tour", "Theater", "Sport",
                   "Zoo">>,
       title |-> "Entertainment (Rate %)", metric |-> "Rate"]>>

\* head(10)
HeadRows == 10

RECURSIVE SortDescending(_, _)
\* df.sort_values(c, ascending=False).rows, equal values in table order
SortDescending(rows, c) ==
    IF rows = <<>> THEN <<>>
    ELSE LET k == CHOOSE i \in 1..Len(rows) :
                     /\ \A j \in 1..Len(rows) : rows[j][c] <= rows[i][c]
                     /\ \A j \in 1..(i - 1) : rows[j][c] < rows[i][c]
         IN  <<rows[k]>> \o
             SortDescending(SubSeq(rows, 1, k - 1) \o SubSeq(rows, k + 1, Len(rows)), c)

\* lines 236 and 237: the labels of the ten rows with the highest uk rate
TopItems(df, uk_rate_col, item_col) ==
    LET sorted == SortDescending(df.rows, uk_rate_col)
        df_top == SubSeq(sorted, 1, IF Len(sorted) < HeadRows THEN Len(sorted) ELSE HeadRows)
    IN  [k \in 1..Len(df_top) |-> df_top[k][item_col]]

\* lines 229 to 238, reached with a non-empty expenditure table
Top10Chart(df) ==
    LET uk_rate_cols == MetricColumns(df, "uk", "rate")
        item_col == ItemColumn(df)
    IN  IF uk_rate_cols # <<>> /\ item_col # <<>>
        THEN create_subset_chart(df, TopItems(df, uk_rate_cols[1], item_col[1]),
                                 "Top 10 Participation Rates", "Rate")
        ELSE Outcome("", <<>>, df)

\* the pairs of input files of the model: any summary file beside the
\* reference expenditure file, and any expenditure file beside a summary
\* file of at most one row
FilePairs ==
    {fs \in [summary : SummaryFiles, expenditure : ExpenditureFiles] :
        fs.expenditure = ReferenceExpenditure \/ Len(fs.summary.rows) <= 1}

Init ==
    /\ files \in FilePairs
    /\ pc = "load"
    /\ ip = 1
    /\ df_summary = EmptyFrame
    /\ df_expenditure = EmptyFrame
    /\ ui = <<>>
    /\ exc = NoException
    /\ col = ""
    /\ cleaned = <<>>

\* line 85: df_summary, df_expenditure = load_data()
LoadData ==
    /\ pc = "load"
    /\ \E r \in {load_data(files)} :
           /\ ui' = ui \o r.emitted
           /\ exc' = Raised(r.raised, "load_data")
           /\ IF r.raised # ""
              THEN /\ pc' = "crashed"
                   /\ UNCHANGED <<df_summary, df_expenditure>>
              ELSE /\ pc' = "check"
                   /\ df_summary' = r.df_sum
                   /\ df_expenditure' = r.df_exp
    /\ UNCHANGED <<files, ip, col, cleaned>>

\* the check that never stops the run
EmptyCheckNoStop ==
    /\ pc = "check"
    /\ ui' = IF IsEmpty(df_summary)
             THEN Append(ui, StWarning(<<"Data is empty. Please check your CSV files.">>))
             ELSE ui
    /\ pc' = "bar"
    /\ UNCHANGED <<files, ip, df_summary, df_expenditure, exc, col, cleaned>>

\* lines 87 to 89: st.warning and st.stop() on an empty summary table (the
\* sidebar expander of lines 92 to 94 shows table heads only and is left out)
EmptyCheck ==
    /\ pc = "check"
    /\ IF IsEmpty(df_summary)
       THEN /\ ui' = Append(ui, StWarning(<<"Data is empty. Please check your CSV files.">>))
            /\ pc' = "stopped"
       ELSE /\ ui' = ui
            /\ pc' = "bar"
    /\ UNCHANGED <<files, ip, df_summary, df_expenditure, exc, col, cleaned>>

\* one create_bar_chart call of tabs 1 and 2 (lines 191 to 222)
BarChartCall ==
    /\ pc = "bar"
    /\ \E o \in {create_bar_chart(df_summary, BarCalls[ip].query, BarCalls[ip].title)} :
           /\ df_summary' = o.df
           /\ ui' = ui \o o.emitted
           /\ exc' = Raised(o.raised, "create_bar_chart")
           /\ IF o.raised # ""
              THEN pc' = "crashed" /\ ip' = ip
              ELSE IF ip < Len(BarCalls)
                   THEN pc' = "bar" /\ ip' = ip + 1
                   ELSE pc' = "tab3" /\ ip' = 1
    /\ UNCHANGED <<files, df_expenditure, col, cleaned>>

\* lines 228 to 238 and 252 to 253: the head of tab 3
Tab3Overview ==
    /\ pc = "tab3"
    /\ IF IsEmpty(df_expenditure)
       THEN /\ ui' = Append(ui, StWarning(<<"No Expenditure Data">>))
            /\ pc' = "done"
            /\ UNCHANGED <<df_expenditure, exc>>
       ELSE \E o \in {Top10Chart(df_expenditure)} :
                /\ df_expenditure' = o.df
                /\ ui' = ui \o o.emitted
                /\ exc' = Raised(o.raised, "create_subset_chart")
                /\ pc' = IF o.raised # "" THEN "crashed" ELSE "subset"
    /\ UNCHANGED <<files, ip, df_summary, col, cleaned>>

\* one keyword create_subset_chart call of tab 3 (lines 244 to 250)
SubsetChartCall ==
    /\ pc = "subset"
    /\ \E o \in {create_subset_chart(df_expenditure, SubsetCalls[ip].items,
                                     SubsetCalls[ip].title, SubsetCalls[ip].metric)} :
           /\ df_expenditure' = o.df
           /\ ui' = ui \o o.emitted
           /\ exc' = Raised(o.raised, "create_subset_chart")
           /\ IF o.raised # ""
              THEN pc' = "crashed" /\ ip' = ip
              ELSE IF ip < Len(SubsetCalls)
                   THEN pc' = "subset" /\ ip' = ip + 1
                   ELSE pc' = "done" /\ ip' = ip
    /\ UNCHANGED <<files, df_summary, col, cleaned>>

Next ==
    \/ LoadData
    \/ EmptyCheck
    \/ BarChartCall
    \/ Tab3Overview
    \/ SubsetChartCall

\* one run of the script over any pair of input files
Spec == Init /\ [][Next]_vars

---------------------------------------------------------------------------
(* The column normaliser on its own                                        *)

NormInit ==
    /\ col \in Names
    /\ cleaned = <<>>
    /\ files = [summary |-> Unreadable, expenditure |-> Unreadable]
    /\ pc = "clean"
    /\ ip = 1
    /\ df_summary = EmptyFrame
    /\ df_expenditure = EmptyFrame
    /\ ui = <<>>
    /\ exc = NoException

\* clean_col_name applied to col, and then to its own result
CleanColName ==
    /\ pc = "clean"
    /\ Len(cleaned) < 2
    /\ cleaned' = Append(cleaned,
                         clean_col_name(IF cleaned = <<>> THEN col
                                        ELSE cleaned[Len(cleaned)]))
    /\ UNCHANGED <<files, pc, ip, df_summary, df_expenditure, ui, exc, col>>

NormNext == CleanColName

\* clean_col_name over the column headers of Names
NormSpec == NormInit /\ [][NormNext]_vars

---------------------------------------------------------------------------
(* Vocabulary of the properties                                            *)

\* load_data has returned its pair and the empty check has let the run on
Loaded ==
    \/ pc \in {"bar", "tab3", "subset", "done"}
    \/ pc = "crashed" /\ exc.in # "load_data"

\* the i-th create_bar_chart call of the script has been made
Executed(i) ==
    \/ pc = "bar" /\ i < ip
    \/ pc \in {"tab3", "subset", "done"}
    \/ pc = "crashed" /\ exc.in = "create_bar_chart" /\ i <= ip
    \/ pc = "crashed" /\ exc.in = "create_subset_chart"

LoadFailed == ~files.summary.readable \/ ~files.expenditure.readable

Categories(df) == {df.rows[k]["Category"] : k \in 1..Len(df.rows)}

RowsOf(df, category) == SelectSeq(df.rows, LAMBDA r : r["Category"] = category)

FirstRowOf(df, category) ==
    CHOOSE k \in 1..Len(df.rows) :
        /\ df.rows[k]["Category"] = category
        /\ \A j \in 1..(k - 1) : df.rows[j]["Category"] # category

\* the lowercase form of the category contains the lowercase request
ContainsRequest(category, request) == Contains(Lower(category), Lower(request))

\* the category the matching policy of section 4.5 selects, as a set of
\* at most one value
Selected(df, request) ==
    IF request \in Categories(df) THEN {request}
    ELSE LET containing == {c \in Categories(df) : ContainsRequest(c, request)}
         IN  {c \in containing :
                 \A d \in containing : FirstRowOf(df, c) <= FirstRowOf(df, d)}

\* requests beyond those of the script
Requests ==
    {BarCalls[i].query : i \in 1..Len(BarCalls)}
    \cup {"nonexistent", "Purpose", "PORT", "entry", "male", "MALE", "e", ""}

\* the charts of the given title among the elements emitted so far
ChartsTitled(title) ==
    {k \in 1..Len(ui) : ui[k].kind = "altair_chart" /\ ui[k].text = <<title>>}

Errors == {k \in 1..Len(ui) : ui[k].kind = "error"}

\* the table lacks a column the paired bar chart needs
MissingShareColumn(df) ==
    \/ \A c \in Range(df.columns) : ~(HasToken(c, "uk") /\ HasToken(c, "share"))
    \/ \A c \in Range(df.columns) : ~(HasToken(c, "all") /\ HasToken(c, "share"))

\* the i-th bar chart request finds its category and not its columns
SchemaMismatch(i) ==
    Selected(df_summary, BarCalls[i].query) # {} /\ MissingShareColumn(df_summary)

BagOfSeq(seq) ==
    [x \in Range(seq) |-> Cardinality({k \in 1..Len(seq) : seq[k] = x})]

LongRow(item, group, share) == [Item |-> item, Group |-> group, Share |-> share]

---------------------------------------------------------------------------
(* C1: category resolution                                                 *)

\* C1: for every table the run loads and every request, create_bar_chart
\* resolves a request that equals a distinct Category value to that value,
\* also when other values contain it, and otherwise to the first Category
\* value in table order whose lowercase form contains the lowercase
\* request; the chart of every call made shows the rows of that category.
C1_CategoryResolution ==
    Loaded =>
      /\ \A q \in Requests :
            Range(ResolveCategory(Unique(ColumnValues(df_summary, "Category")), q))
                = Selected(df_summary, q)
      /\ \A i \in 1..Len(BarCalls) :
            (Executed(i) /\ ~MissingShareColumn(df_summary)) =>
                \A c \in Selected(df_summary, BarCalls[i].query) :
                    \E k \in ChartsTitled(BarCalls[i].title) :
                        {d["Item"] : d \in Range(ui[k].data)}
                            = {r["Item"] : r \in Range(RowsOf(df_summary, c))}

\* the request 'purpose' was charted from a table in which 'Main Purpose'
\* comes before 'purpose'
C1_Witness ==
    /\ Loaded
    /\ {"Main Purpose", "purpose"} \subseteq Categories(df_summary)
    /\ FirstRowOf(df_summary, "Main Purpose") < FirstRowOf(df_summary, "purpose")
    /\ \E k \in ChartsTitled("Purpose Breakdown") :
          \E d \in Range(ui[k].data) : d["Item"] = "Business"

---------------------------------------------------------------------------
(* C2: the unmatched request                                               *)

\* C2: every create_bar_chart call whose request neither equals nor is a
\* case-insensitive substring of any Category value has emitted an error
\* that names the request and lists every available category, and has
\* rendered no chart.
C2_UnmatchedRequestReported ==
    \A i \in 1..Len(BarCalls) :
        (Executed(i) /\ Selected(df_summary, BarCalls[i].query) = {}) =>
            /\ \E k \in Errors :
                  /\ BarCalls[i].query \in Range(ui[k].text)
                  /\ Categories(df_summary) \subseteq Range(ui[k].text)
            /\ ChartsTitled(BarCalls[i].title) = {}

\* the run is over, and 'Household Annual Income' was reported missing from
\* a table of two categories
C2_Witness ==
    /\ pc = "done"
    /\ Cardinality(Categories(df_summary)) = 2
    /\ \E k \in Errors : "Household Annual Income" \in Range(ui[k].text)

---------------------------------------------------------------------------
(* C3, C4: the missing share column                                        *)

\* C3: a create_bar_chart call that cannot locate the 'uk' or the 'all'
\* share column fails with a 'missing required column' condition and
\* raises no unrelated lookup error.
C3_MissingColumnIsClearFailure ==
    \A i \in 1..Len(BarCalls) :
        (Executed(i) /\ SchemaMismatch(i)) =>
            /\ ~(exc.in = "create_bar_chart" /\ exc.type \in {"IndexError", "KeyError"})
            /\ \/ exc = Raised("MissingRequiredColumn", "create_bar_chart")
               \/ \E k \in Errors : "missing required column" \in Range(ui[k].text)

\* C4: a chart request that cannot locate its 'all' or 'uk' metric column
\* is reported inline, no exception leaves the chart builder, and the
\* charts requested later in the run are still built.
C4_SchemaMismatchStopsOneChartOnly ==
    \A i \in 1..Len(BarCalls) :
        (Executed(i) /\ SchemaMismatch(i)) =>
            /\ exc = NoException
            /\ pc # "crashed"
            /\ \E k \in Errors : BarCalls[i].title \in Range(ui[k].text)
            /\ (pc = "done" /\ ~IsEmpty(df_expenditure) /\ ItemColumn(df_expenditure) # <<>>) =>
                  \A j \in 1..Len(SubsetCalls) :
                      \/ ChartsTitled(SubsetCalls[j].title) # {}
                      \/ \E k \in 1..Len(ui) :
                            ui[k].kind = "warning"
                            /\ SubsetCalls[j].title \in Range(ui[k].text)

---------------------------------------------------------------------------
(* C5: the failed load                                                     *)

\* C5: when reading either input file fails, load_data returns two empty
\* tables and reports an error, and the run stops at the empty check: no
\* chart builder is reached and no chart is rendered.
C5_LoadFailureHalts ==
    (LoadFailed /\ pc # "load") =>
        /\ df_summary = EmptyFrame
        /\ df_expenditure = EmptyFrame
        /\ Errors # {}
        /\ pc \in {"check", "stopped"}
        /\ \A k \in 1..Len(ui) : ui[k].kind # "altair_chart"

\* the summary file was read and the expenditure file was not, and the run
\* has stopped
C5_Witness ==
    /\ files.summary.readable
    /\ Len(files.summary.rows) > 0
    /\ ~files.expenditure.readable
    /\ pc = "stopped"

---------------------------------------------------------------------------
(* C6: the derived 'Age (Overall)' rows                                    *)

\* C6: when the table load_data returns has 'male' rows and 'female' rows,
\* it has exactly one 'Age (Overall)' row per Item present in both, and no
\* other, whose uk share and all share are the means of the male and the
\* female value; male 10/20 and female 30/40 for '20s' give 20 and 30.
\* (The claim is about tables that have both share columns: without one,
\* load_data raises at line 71 or 72 and returns no table.)
C6_OverallAgeRows ==
    LET male == RowsOf(df_summary, "male")
        female == RowsOf(df_summary, "female")
        overall == RowsOf(df_summary, "Age (Overall)")
        both == {r["Item"] : r \in Range(male)} \cap {r["Item"] : r \in Range(female)}
    IN  (Loaded /\ male # <<>> /\ female # <<>>) =>
          /\ Len(overall) = Cardinality(both)
          /\ \A i \in both :
                \E k \in 1..Len(overall) :
                    /\ overall[k]["Item"] = i
                    /\ \A j \in 1..Len(overall) : overall[j]["Item"] = i => j = k
                    /\ \A m \in Range(male), f \in Range(female) :
                          (m["Item"] = i /\ f["Item"] = i) =>
                              /\ 2 * overall[k]["uk_Share_"]
                                    = m["uk_Share_"] + f["uk_Share_"]
                              /\ 2 * overall[k]["all_Share_"]
                                    = m["all_Share_"] + f["all_Share_"]
          /\ \A m \in Range(male), f \in Range(female) :
                (/\ m["Item"] = "20s" /\ f["Item"] = "20s"
                 /\ m["uk_Share_"] = Num(10) /\ m["all_Share_"] = Num(20)
                 /\ f["uk_Share_"] = Num(30) /\ f["all_Share_"] = Num(40)) =>
                    \E k \in 1..Len(overall) :
                        /\ overall[k]["Item"] = "20s"
                        /\ overall[k]["uk_Share_"] = Num(20)
                        /\ overall[k]["all_Share_"] = Num(30)

\* the table holds the derived row of the 10/20 and 30/40 example
C6_Witness ==
    /\ Loaded
    /\ \E r \in Range(df_summary.rows) :
          /\ r["Category"] = "Age (Overall)"
          /\ r["Item"] = "20s"
          /\ r["uk_Share_"] = Num(20)
          /\ r["all_Share_"] = Num(30)
    /\ \E m \in Range(RowsOf(df_summary, "male")) :
          m["Item"] = "20s" /\ m["uk_Share_"] = Num(10)

---------------------------------------------------------------------------
(* C7, C8: the column normaliser (checked under NormSpec)                  *)

\* C7: clean_col_name applied to its own result returns it unchanged.
C7_Idempotent == Len(cleaned) = 2 => cleaned[2] = cleaned[1]

\* a header that normalisation changes has been normalised twice
C7_Witness == Len(cleaned) = 2 /\ cleaned[1] # col /\ Len(col) = MaxLen

\* C8, as claimed: the column "all:Share (%)" normalises to "all_Share".
C8_AllShare == (col = "all:Share (%)" /\ cleaned # <<>>) => cleaned[1] = "all_Share"

\* C8, amended: the column "all:Share (%)" normalises to "all_Share_"; the
\* blank before "(%)" becomes a separator before the symbols are removed.
C8_AllShareTrailingSeparator ==
    (col = "all:Share (%)" /\ cleaned # <<>>) => cleaned[1] = "all_Share_"

\* "all:Share (%)" has been normalised
C8_Witness == col = "all:Share (%)" /\ Len(cleaned) = 1

---------------------------------------------------------------------------
(* C9: the chart builders and their input                                  *)

\* C9: no call of create_bar_chart or create_subset_chart changes the table
\* it is given, whether it renders a chart, reports an error, shows a
\* notice or raises.
C9_BuildersKeepInput ==
    [][(pc \in {"bar", "tab3", "subset"}) =>
          (df_summary' = df_summary /\ df_expenditure' = df_expenditure)]_vars

\* a run that rendered a chart, reported an error and showed a notice is
\* over, and both tables are as load_data returned them
C9_Witness ==
    /\ pc = "done"
    /\ \E k \in 1..Len(ui) : ui[k].kind = "altair_chart"
    /\ \E k \in 1..Len(ui) : ui[k].kind = "error"
    /\ \E k \in 1..Len(ui) : ui[k].kind = "warning"
    /\ df_summary = load_data(files).df_sum
    /\ df_expenditure = load_data(files).df_exp

---------------------------------------------------------------------------
(* C10: the wide-to-long reshape                                           *)

\* C10: the chart of a create_bar_chart call whose category has n rows
\* holds exactly 2n long-form rows: per row of the category one row
\* (Item, 'All', all share) and one row (Item, 'UK', uk share); Haneda
\* 40/60 and Narita 60/40 give (Haneda,All,40), (Haneda,UK,60),
\* (Narita,All,60), (Narita,UK,40).
C10_WideToLong ==
    \A i \in 1..Len(BarCalls) :
        \A k \in ChartsTitled(BarCalls[i].title) :
            \A c \in Selected(df_summary, BarCalls[i].query) :
                LET rows == RowsOf(df_summary, c)
                    all == [j \in 1..Len(rows) |->
                               LongRow(rows[j]["Item"], "All", rows[j]["all_Share_"])]
                    uk == [j \in 1..Len(rows) |->
                              LongRow(rows[j]["Item"], "UK", rows[j]["uk_Share_"])]
                IN  /\ Len(ui[k].data) = 2 * Len(rows)
                    /\ BagOfSeq(ui[k].data) = BagOfSeq(all) (+) BagOfSeq(uk)
                    /\ ({[Item |-> r["Item"], all |-> r["all_Share_"], uk |-> r["uk_Share_"]] :
                            r \in Range(rows)}
                          = {[Item |-> "Haneda", all |-> Num(40), uk |-> Num(60)],
                             [Item |-> "Narita", all |-> Num(60), uk |-> Num(40)]})
                       => BagOfSeq(ui[k].data)
                            = SetToBag({LongRow("Haneda", "All", Num(40)),
                                        LongRow("Haneda", "UK", Num(60)),
                                        LongRow("Narita", "All", Num(60)),
                                        LongRow("Narita", "UK", Num(40))})

\* the 'Port of Entry' chart of the Haneda and Narita rows has been rendered
C10_Witness ==
    \E k \in ChartsTitled("Entry Airport") :
        /\ Len(ui[k].data) = 4
        /\ LongRow("Haneda", "UK", Num(60)) \in Range(ui[k].data)
        /\ LongRow("Narita", "All", Num(60)) \in Range(ui[k].data)

=============================================================================
